---- MODULE Spec2Model ----
(***************************************************************************)
(* Model of the Usabilla API client (src/src/index.js): the stateful       *)
(* SignatureFactory shared by every Resource of one client, Resource.get,  *)
(* Usabilla.configure and the transport callback that settles the promise. *)
(*                                                                         *)
(* A JavaScript string is a sequence of text pieces: one character each    *)
(* wherever the code looks inside the string (ids, property names, values, *)
(* dates), a whole literal where it only copies or matches it (the         *)
(* segments of a path template, the ':id' placeholder, the protocol        *)
(* constants).  The digests of crypto are idealised: Hash and Hmac are     *)
(* injective symbolic terms written into the same sequences.               *)
(***************************************************************************)
EXTENDS Integers, Sequences, FiniteSets, TLC

VARIABLES
  accessKey,        \* SignatureFactory.accessKey
  secretKey,        \* SignatureFactory.secretKey
  host,             \* SignatureFactory.host
  url,              \* SignatureFactory.url
  method,           \* SignatureFactory.method
  queryParameters,  \* SignatureFactory.queryParameters
  dates,            \* SignatureFactory.dates
  headers,          \* SignatureFactory.headers
  config,           \* Usabilla.config
  clock,            \* the wall clock read by moment()
  queryObj,         \* the query object handed to the latest get(), as get() left it
  last,             \* the latest get(): its arguments and everything it produced
  promise,          \* the promise returned by the latest get()
  callback,         \* the transport callback of the latest request
  fnIn,             \* argument of a stand-alone handleQuery call
  fnOut             \* what that call left in the factory

vars == <<accessKey, secretKey, host, url, method, queryParameters, dates,
          headers, config, clock, queryObj, last, promise, callback,
          fnIn, fnOut>>

\* ------------------------------------------------------------- bounds

\* seconds the clock may advance after the client is built
MaxClock == 1
\* own properties of a params object
MaxParams == 3
\* characters of an id
MaxIdLen == 2

\* ------------------------------------------------------------ strings

\* the value of a field that was never assigned
Undefined == <<"undefined">>

\* how string concatenation and Array.prototype.join render a value
Str(x) == IF x = Undefined THEN <<>> ELSE x

\* JavaScript truthiness of a string or undefined
Truthy(x) == x # Undefined /\ x # <<>>

RECURSIVE Join(_, _)
Join(parts, sep) ==
  IF parts = <<>> THEN <<>>
  ELSE IF Len(parts) = 1 THEN Str(parts[1])
  ELSE Str(parts[1]) \o sep \o Join(Tail(parts), sep)

\* String.prototype.slice(0, -1)
SliceDropLast(s) == IF s = <<>> THEN <<>> ELSE SubSeq(s, 1, Len(s) - 1)

\* positions at which pattern occurs in str
Occurrences(str, pattern) ==
  {i \in 1..(Len(str) - Len(pattern) + 1) :
     SubSeq(str, i, i + Len(pattern) - 1) = pattern}

\* the replacement text of String.prototype.replace: $$, $&, $` and $' are
\* expanded; a pattern that is a string has no captures, so $n stays as it is
RECURSIVE GetSubstitution(_, _, _, _)
GetSubstitution(matched, before, after, replacement) ==
  IF replacement = <<>> THEN <<>>
  ELSE IF replacement[1] = "$" /\ Len(replacement) >= 2
            /\ replacement[2] \in {"$", "&", "`", "'"}
    THEN (CASE replacement[2] = "$" -> <<"$">>
            [] replacement[2] = "&" -> matched
            [] replacement[2] = "`" -> before
            [] replacement[2] = "'" -> after)
         \o GetSubstitution(matched, before, after, SubSeq(replacement, 3, Len(replacement)))
    ELSE <<replacement[1]>>
         \o GetSubstitution(matched, before, after, Tail(replacement))

\* String.prototype.replace(pattern, replacement) with a string pattern: the
\* first occurrence only
Replace(str, pattern, replacement) ==
  LET occ == Occurrences(str, pattern) IN
  IF occ = {} THEN str
  ELSE LET i      == CHOOSE j \in occ : \A k \in occ : j <= k
           before == SubSeq(str, 1, i - 1)
           after  == SubSeq(str, i + Len(pattern), Len(str))
       IN before \o GetSubstitution(pattern, before, after, replacement) \o after

\* UTF-16 code units of the characters that occur in property names
CodeUnit(c) ==
  CASE c = "0" -> 48 [] c = "1" -> 49 [] c = "9" -> 57
    [] c = "B" -> 66 [] c = "a" -> 97 [] c = "b" -> 98

\* a < b as Array.prototype.sort compares strings without a comparator
RECURSIVE StrLess(_, _)
StrLess(a, b) ==
  IF b = <<>> THEN FALSE
  ELSE IF a = <<>> THEN TRUE
  ELSE IF a[1] = b[1] THEN StrLess(Tail(a), Tail(b))
  ELSE CodeUnit(a[1]) < CodeUnit(b[1])

RECURSIVE InsertSorted(_, _)
InsertSorted(k, sorted) ==
  IF sorted = <<>> THEN <<k>>
  ELSE IF StrLess(sorted[1], k) THEN <<sorted[1]>> \o InsertSorted(k, Tail(sorted))
  ELSE <<k>> \o sorted

\* a sort that leaves the keys in enumeration order
SortNone(arr) == arr

\* Array.prototype.sort()
RECURSIVE Sort(_)
Sort(arr) ==
  IF arr = <<>> THEN <<>> ELSE InsertSorted(arr[1], Sort(Tail(arr)))

\* ------------------------------------------------------ query objects

IsDigit(c) == c \in {"0", "1", "2", "3", "4", "5", "6", "7", "8", "9"}

DigitValue(c) ==
  CASE c = "0" -> 0 [] c = "1" -> 1 [] c = "2" -> 2 [] c = "3" -> 3 [] c = "4" -> 4
    [] c = "5" -> 5 [] c = "6" -> 6 [] c = "7" -> 7 [] c = "8" -> 8 [] c = "9" -> 9

\* a property name that is a canonical array index ("0", "9", "10", not "01")
IsArrayIndex(k) ==
  /\ k # <<>>
  /\ \A i \in 1..Len(k) : IsDigit(k[i])
  /\ (Len(k) = 1 \/ k[1] # "0")

RECURSIVE NumValue(_)
NumValue(k) ==
  IF k = <<>> THEN 0
  ELSE 10 * NumValue(SubSeq(k, 1, Len(k) - 1)) + DigitValue(k[Len(k)])

RECURSIVE Ascending(_)
Ascending(S) ==
  IF S = {} THEN <<>>
  ELSE LET m == CHOOSE x \in S : \A y \in S : NumValue(x) <= NumValue(y)
       IN <<m>> \o Ascending(S \ {m})

\* A params object is the sequence of its enumerable properties in creation
\* order, each [k, v, own]; own is FALSE for a property of the prototype.
\* for (var k in params): array indices ascending, then the other names in
\* creation order
ForIn(params) ==
  LET names   == [i \in 1..Len(params) |-> params[i].k]
      indices == {params[i].k : i \in {j \in 1..Len(params) : IsArrayIndex(params[j].k)}}
      IsName(k) == ~IsArrayIndex(k)
  IN Ascending(indices) \o SelectSeq(names, IsName)

HasOwnProperty(params, k) ==
  \E i \in 1..Len(params) : params[i].k = k /\ params[i].own

\* params[k]
Lookup(params, k) ==
  params[CHOOSE i \in 1..Len(params) : params[i].k = k].v

RECURSIVE Pairs(_, _, _)
Pairs(acc, keys, params) ==
  IF keys = <<>> THEN acc
  ELSE Pairs(acc \o keys[1] \o <<"=">> \o Lookup(params, keys[1]) \o <<"&">>,
             Tail(keys), params)

\* the params branch without line 241: the string is appended to, not rebuilt
BuildQueryParametersAppend(old, params) ==
  LET IsOwn(k) == HasOwnProperty(params, k)
  IN SliceDropLast(Pairs(Str(old), Sort(SelectSeq(ForIn(params), IsOwn)), params))

\* handleQuery, the branch taken when query.params is truthy; old is
\* this.queryParameters before the call
BuildQueryParameters(old, params) ==
  LET IsOwn(k) == HasOwnProperty(params, k)
  IN SliceDropLast(Pairs(<<>>, Sort(SelectSeq(ForIn(params), IsOwn)), params))

Placeholder == <<":id">>
EncodedWildcard == <<"%", "2", "A">>

\* A query object is [hasId, id, hasParams, params]; id is <<>> and params is
\* <<>> when the property is absent.
\* handleQuery: sf is the factory; the result is the factory and the query
\* object, which the call rewrites in place
HandleQuery(sf, query) ==
  LET idGiven == query.hasId /\ Truthy(query.id) /\ query.id # <<>>
      id      == IF idGiven /\ query.id = <<"*">> THEN EncodedWildcard ELSE query.id
  IN [sf    |-> [sf EXCEPT
                   !.url = IF idGiven THEN Replace(sf.url, Placeholder, id) ELSE sf.url,
                   !.queryParameters =
                      IF query.hasParams
                        THEN BuildQueryParameters(sf.queryParameters, query.params)
                        ELSE sf.queryParameters],
      query |-> [query EXCEPT !.id = id]]

\* ---------------------------------------------------------------- dates

\* An instant is a number of seconds since 2017-01-01T00:00:00 (a Sunday);
\* the formats below are right for every instant of January 2017.
SecondsPerDay == 24 * 60 * 60

Digits == <<"0", "1", "2", "3", "4", "5", "6", "7", "8", "9">>
Pad2(n) == <<Digits[(n \div 10) + 1], Digits[(n % 10) + 1]>>

DayNames == << <<"S","u","n">>, <<"M","o","n">>, <<"T","u","e">>, <<"W","e","d">>,
               <<"T","h","u">>, <<"F","r","i">>, <<"S","a","t">> >>

DayOfMonth(t) == (t \div SecondsPerDay) + 1
Hours(t)   == (t % SecondsPerDay) \div 3600
Minutes(t) == (t % 3600) \div 60
Seconds(t) == t % 60

\* moment(t).format('ddd, DD MMM YYYY HH:mm:ss')
FormatUsbl(t) ==
  DayNames[((t \div SecondsPerDay) % 7) + 1] \o <<",", " ">> \o Pad2(DayOfMonth(t))
    \o <<" ", "J", "a", "n", " ", "2", "0", "1", "7", " ">>
    \o Pad2(Hours(t)) \o <<":">> \o Pad2(Minutes(t)) \o <<":">> \o Pad2(Seconds(t))

\* moment(t).format('YYYYMMDD')
FormatShort(t) == <<"2", "0", "1", "7", "0", "1">> \o Pad2(DayOfMonth(t))

\* moment(t).format('YYYYMMDDTHHmmss')
FormatLong(t) ==
  FormatShort(t) \o <<"T">> \o Pad2(Hours(t)) \o Pad2(Minutes(t)) \o Pad2(Seconds(t))

\* getDateTime: moment() is called three times; t1, t2, t3 are what the clock
\* shows at each call
GetDateTime(t1, t2, t3) ==
  [usbldate  |-> FormatUsbl(t1) \o <<" ", "G", "M", "T">>,
   shortdate |-> FormatShort(t2),
   longdate  |-> FormatLong(t3) \o <<"Z">>]

\* -------------------------------------------------------------- signing

Hash(string) == <<"sha256(">> \o string \o <<")">>
Hmac(key, string) == <<"hmac(">> \o key \o <<";">> \o string \o <<")">>

\* canonical headers whose host line lacks its own newline
GetCanonicalHeadersPlain(sf) ==
  [date |-> <<"date:">> \o sf.dates.usbldate,
   host |-> <<"host:">> \o sf.host]

GetCanonicalHeaders(sf) ==
  [date |-> <<"date:">> \o sf.dates.usbldate,
   host |-> <<"host:">> \o sf.host \o <<"\n">>]

CanonicalString(sf) ==
  LET queryStr         == sf.queryParameters
      bodyHash         == Hash(<<>>)
      canonicalHeaders == GetCanonicalHeaders(sf)
  IN Join(<< IF Truthy(sf.method) THEN sf.method ELSE <<"GET">>,
             sf.url,
             queryStr,
             canonicalHeaders.date,
             canonicalHeaders.host,
             <<"date;host">>,
             bodyHash >>, <<"\n">>)

StringToSign(sf) ==
  Join(<< <<"USBL1-HMAC-SHA256">>,
          sf.dates.longdate,
          sf.dates.shortdate \o <<"/">> \o <<"usbl1_request">>,
          Hash(CanonicalString(sf)) >>, <<"\n">>)

GetSignature(sf) ==
  LET kDate    == Hmac(<<"USBL1">> \o sf.secretKey, sf.dates.shortdate)
      kSigning == Hmac(kDate, <<"usbl1_request">>)
  IN Hmac(kSigning, StringToSign(sf))

AuthHeader(sf) ==
  Join(<< <<"USBL1-HMAC-SHA256 Credential=">> \o sf.accessKey \o <<"/">>
            \o sf.dates.shortdate \o <<"/">> \o <<"usbl1_request">>,
          <<"SignedHeaders=">> \o <<"date;host">>,
          <<"Signature=">> \o GetSignature(sf) >>, <<",", " ">>)

\* a response url that drops the query string
ResponseUrlBare(sf) == sf.url

\* sign, lines 256-263: the url of the response
ResponseUrl(sf) ==
  IF Truthy(sf.queryParameters)
    THEN sf.url \o <<"?">> \o sf.queryParameters
    ELSE sf.url

\* sign, lines 256-265: the response, and the factory as sign leaves it
Respond(sf) ==
  [sf       |-> sf,
   response |-> [headers |-> sf.headers, url |-> ResponseUrl(sf)]]

\* sign, lines 252-254: the headers
SetHeaders(sf) ==
  Respond([sf EXCEPT !.headers = [date          |-> sf.dates.usbldate,
                                  Authorization |-> AuthHeader(sf)]])

\* sign; t1, t2, t3 are what the clock shows at the three moment() calls
Sign(sf, t1, t2, t3) ==
  SetHeaders([sf EXCEPT !.dates = GetDateTime(t1, t2, t3)])

\* ----------------------------------------------------------- the client

DataHost == <<"data.usabilla.com">>

\* the url each Resource is constructed with (WebsitesProduct and below)
WebsitesBase  == <<"/live", "/websites">>
ButtonsUrl    == WebsitesBase \o <<"/button">>
FeedbackUrl   == ButtonsUrl \o <<"/">> \o Placeholder \o <<"/feedback">>
CampaignsUrl  == WebsitesBase \o <<"/campaign">>
ResultsUrl    == CampaignsUrl \o <<"/">> \o Placeholder \o <<"/results">>
StatsUrl      == CampaignsUrl \o <<"/">> \o Placeholder \o <<"/stats">>

Resources == {"buttons", "feedback", "campaigns", "results", "stats"}

ResourceUrl(r) ==
  CASE r = "buttons"   -> ButtonsUrl
    [] r = "feedback"  -> FeedbackUrl
    [] r = "campaigns" -> CampaignsUrl
    [] r = "results"   -> ResultsUrl
    [] r = "stats"     -> StatsUrl

\* Resource.config, the same literal in every resource and never assigned again
ResourceConfig == [protocol |-> <<"https">>, host |-> DataHost]

GetBaseUrl == ResourceConfig.protocol \o <<"://">> \o ResourceConfig.host

\* the SignatureFactory as one record
Factory ==
  [accessKey |-> accessKey, secretKey |-> secretKey, host |-> host, url |-> url,
   method |-> method, queryParameters |-> queryParameters, dates |-> dates,
   headers |-> headers]

SetUrl(sf, u) == [sf EXCEPT !.url = u]

NoDates   == [usbldate |-> Undefined, shortdate |-> Undefined, longdate |-> Undefined]
NoHeaders == [date |-> Undefined, Authorization |-> Undefined]
NoQuery   == [hasId |-> FALSE, id |-> <<>>, hasParams |-> FALSE, params |-> <<>>]

NoCall ==
  [valid |-> FALSE, resource |-> "", query |-> NoQuery, reused |-> FALSE,
   again |-> FALSE, prior |-> [path |-> Undefined, qs |-> Undefined],
   reads |-> <<>>, method |-> Undefined,
   path |-> Undefined, qs |-> Undefined,
   response |-> [headers |-> NoHeaders, url |-> Undefined],
   canonical |-> Undefined, stringToSign |-> Undefined,
   options |-> [url |-> Undefined, headers |-> NoHeaders]]

NoFn == [done |-> FALSE, url |-> Undefined, queryParameters |-> Undefined,
         query |-> NoQuery]

NoPromise  == [state |-> "none", value |-> Undefined]
NoCallback == [state |-> "none", error |-> FALSE, statusCode |-> 0, body |-> Undefined,
               thrown |-> Undefined]

ClockStart == SecondsPerDay - 1
Horizon    == ClockStart + MaxClock

ConstructorAccessKey == <<"A", "K">>
ConstructorSecretKey == <<"S", "K">>

\* Usabilla.config as the constructor sets it
UsabillaConfig ==
  [method |-> <<"GET">>, host |-> DataHost, protocol |-> <<"https">>]

NoFnIn == [url |-> Undefined, queryParameters |-> Undefined, query |-> NoQuery]

\* new Usabilla(accessKey, secretKey)
Constructed ==
  /\ accessKey = ConstructorAccessKey
  /\ secretKey = ConstructorSecretKey
  /\ host = UsabillaConfig.host
  /\ url = Undefined
  /\ method = Undefined
  /\ queryParameters = Undefined
  /\ dates = NoDates
  /\ headers = NoHeaders
  /\ config = UsabillaConfig
  /\ clock = ClockStart
  /\ queryObj = NoQuery
  /\ last = NoCall
  /\ promise = NoPromise
  /\ callback = NoCallback
  /\ fnOut = NoFn

Init == Constructed /\ fnIn = NoFnIn

\* this get() has the inputs of the get() before it: the same resource, and an
\* equal query or the very same query object
RepeatsLast(r, query, reused) ==
  last.valid /\ last.resource = r /\ (reused \/ last.query = query)

\* Resource.get, lines 52-65: the request is issued and the promise returned
Request(r, query, reused, t, hq, sg) ==
  /\ url' = sg.sf.url
  /\ queryParameters' = sg.sf.queryParameters
  /\ dates' = sg.sf.dates
  /\ headers' = sg.sf.headers
  /\ accessKey' = sg.sf.accessKey
  /\ secretKey' = sg.sf.secretKey
  /\ host' = sg.sf.host
  /\ method' = sg.sf.method
  /\ clock' = t[3]
  /\ queryObj' = hq.query
  /\ last' = [valid |-> TRUE, resource |-> r, query |-> query, reused |-> reused,
              again |-> RepeatsLast(r, query, reused),
              prior |-> IF RepeatsLast(r, query, reused)
                          THEN [path |-> last.path, qs |-> last.qs]
                          ELSE NoCall.prior,
              reads |-> t, method |-> method,
              path |-> sg.sf.url, qs |-> sg.sf.queryParameters,
              response |-> sg.response,
              canonical |-> CanonicalString(sg.sf),
              stringToSign |-> StringToSign(sg.sf),
              options |-> [url     |-> GetBaseUrl \o sg.response.url,
                           headers |-> sg.response.headers]]
  /\ promise' = [state |-> "pending", value |-> Undefined]
  /\ callback' = [NoCallback EXCEPT !.state = "waiting"]
  /\ UNCHANGED <<config, fnIn, fnOut>>

\* Resource.get(query) on resource r.  reused: query is the very object the
\* previous get() was given.  t: the clock at the three moment() calls.
Get(r, query, reused, t) ==
  \E hq \in {HandleQuery(SetUrl(Factory, ResourceUrl(r)), query)} :
    \E sg \in {Sign(hq.sf, t[1], t[2], t[3])} :
      Request(r, query, reused, t, hq, sg)

\* what the callers of this model pass: ids and params objects
SpecIds == {<<"*">>, <<"4">>}
ParamsBA == << [k |-> <<"b">>, v |-> <<"2">>, own |-> TRUE],
               [k |-> <<"a">>, v |-> <<"1">>, own |-> TRUE] >>
SpecQueries ==
  {[hasId |-> i # <<>>, id |-> i, hasParams |-> p[1], params |-> p[2]] :
     i \in SpecIds \cup {<<>>},
     p \in {<<FALSE, <<>> >>, <<TRUE, <<>> >>, <<TRUE, ParamsBA>>}}
SpecResources == {"buttons", "feedback"}

\* the clock never runs backwards
Reads == {t \in (clock..Horizon) \X (clock..Horizon) \X (clock..Horizon) :
            t[1] <= t[2] /\ t[2] <= t[3]}

GetNew ==
  \E r \in SpecResources, query \in SpecQueries, t \in Reads :
    Get(r, query, FALSE, t)

GetSameObject ==
  /\ last.valid
  /\ \E r \in SpecResources, t \in Reads : Get(r, queryObj, TRUE, t)

\* signatureFactory.setMethod(m)
SetMethod(m) ==
  /\ method' = m
  /\ UNCHANGED <<accessKey, secretKey, host, url, queryParameters, dates, headers,
                 config, clock, queryObj, last, promise, callback, fnIn, fnOut>>

Methods == {<<"POST">>}

\* lodash.assign(target, options)
Assign(target, options) ==
  [k \in DOMAIN target \cup DOMAIN options |->
     IF k \in DOMAIN options THEN options[k] ELSE target[k]]

\* a configure that assigns the options to the signature factory as well
ConfigureFactory(options) ==
  /\ accessKey' = Assign(Factory, options).accessKey
  /\ secretKey' = Assign(Factory, options).secretKey
  /\ host' = Assign(Factory, options).host
  /\ config' = Assign(config, options)
  /\ UNCHANGED <<url, method, queryParameters, dates, headers, clock, queryObj,
                 last, promise, callback, fnIn, fnOut>>

\* Usabilla.configure(options)
Configure(options) ==
  /\ config' = Assign(config, options)
  /\ UNCHANGED <<accessKey, secretKey, host, url, method, queryParameters, dates,
                 headers, clock, queryObj, last, promise, callback, fnIn, fnOut>>

Options == {[host |-> <<"evil.example">>],
            [accessKey |-> <<"X">>, secretKey |-> <<"Y">>]}

ConfigureAny == \E options \in Options : Configure(options)
SetMethodAny == \E m \in Methods : SetMethod(m)

Next == GetNew \/ GetSameObject \/ SetMethodAny \/ ConfigureAny

Spec == Init /\ [][Next]_vars

\* ------------------------------------------------------- the transport

JsonBody == <<"{", "}">>
TextBody == <<"<", "h", "t", "m", "l", ">">>

\* JSON.parse(body) returns; it throws a SyntaxError otherwise
JsonValid(body) == body = JsonBody
JsonParse(body) == <<"object">>

\* what request() may hand to its callback: an error and nothing else, or a
\* response with a status code and a body
Outcomes ==
  {[error |-> TRUE, statusCode |-> 0, body |-> Undefined]}
    \cup {[error |-> FALSE, statusCode |-> c, body |-> b] :
            c \in {200, 404}, b \in {JsonBody, TextBody}}

\* the callback of request(options, ...) in Resource.get, lines 58-64
TransportCallback(o) ==
  /\ callback.state = "waiting"
  /\ IF ~o.error /\ o.statusCode = 200
       THEN IF JsonValid(o.body)
              THEN /\ promise' = [state |-> "resolved", value |-> JsonParse(o.body)]
                   /\ callback' = [state |-> "fired", error |-> o.error,
                                   statusCode |-> o.statusCode, body |-> o.body,
                                   thrown |-> Undefined]
              ELSE /\ promise' = promise
                   /\ callback' = [state |-> "fired", error |-> o.error,
                                   statusCode |-> o.statusCode, body |-> o.body,
                                   thrown |-> <<"SyntaxError">>]
       ELSE /\ promise' = [state |-> "rejected", value |-> o.body]
            /\ callback' = [state |-> "fired", error |-> o.error,
                            statusCode |-> o.statusCode, body |-> o.body,
                            thrown |-> Undefined]
  /\ UNCHANGED <<accessKey, secretKey, host, url, method, queryParameters, dates,
                 headers, config, clock, queryObj, last, fnIn, fnOut>>

Transport == \E o \in Outcomes : TransportCallback(o)

NextTransport == GetNew \/ Transport

\* requests and their callbacks
SpecTransport == Init /\ [][NextTransport]_vars

\* ------------------------------------------- handleQuery on its own

IdAlphabet == {"4", "2", "*", "$", "&", "'"}
IdStrings  == UNION {[1..n -> IdAlphabet] : n \in 1..MaxIdLen}

ParamKeys   == {<<"a">>, <<"b">>, <<"a", "b">>, <<"B">>, <<"1", "0">>, <<"9">>}
ParamValues == {<<"1">>, <<"2">>}
Properties  == [k : ParamKeys, v : ParamValues, own : BOOLEAN]

ParamObjects ==
  {p \in UNION {[1..n -> Properties] : n \in 0..MaxParams} :
     \A i, j \in 1..Len(p) : i # j => p[i].k # p[j].k}

\* a path template and an id, no params
PathInputs ==
  {[url |-> ResourceUrl(r), queryParameters |-> Undefined,
    query |-> [hasId |-> i[1], id |-> i[2], hasParams |-> FALSE, params |-> <<>>]] :
     r \in Resources,
     i \in {<<FALSE, <<>> >>, <<TRUE, <<>> >>} \cup {<<TRUE, x>> : x \in IdStrings}}

\* a params object, whatever an earlier call left in queryParameters
ParamsInputs ==
  {[url |-> ButtonsUrl, queryParameters |-> old,
    query |-> [hasId |-> FALSE, id |-> <<>>, hasParams |-> TRUE, params |-> p]] :
     old \in {Undefined, <<"x", "=", "1">>}, p \in ParamObjects}

InitFn == Constructed /\ fnIn \in PathInputs \cup ParamsInputs

\* signatureFactory.setUrl(fnIn.url); signatureFactory.handleQuery(fnIn.query)
Handled(hq) ==
  [done |-> TRUE, url |-> hq.sf.url, queryParameters |-> hq.sf.queryParameters,
   query |-> hq.query]

ApplyHandleQuery ==
  /\ ~fnOut.done
  /\ fnOut' = Handled(HandleQuery([Factory EXCEPT !.url = fnIn.url,
                                     !.queryParameters = fnIn.queryParameters],
                                  fnIn.query))
  /\ UNCHANGED <<accessKey, secretKey, host, url, method, queryParameters, dates,
                 headers, config, clock, queryObj, last, promise, callback, fnIn>>

SpecFn == InitFn /\ [][ApplyHandleQuery]_vars

\* ------------------------------------------------------------ properties

\* the fields of s between the separators
RECURSIVE Split(_, _)
Split(s, sep) ==
  IF \A i \in 1..Len(s) : s[i] # sep THEN <<s>>
  ELSE LET i == CHOOSE j \in 1..Len(s) : s[j] = sep /\ \A k \in 1..(j - 1) : s[k] # sep
       IN <<SubSeq(s, 1, i - 1)>> \o Split(SubSeq(s, i + 1, Len(s)), sep)

Lines(call) == Split(call.canonical, "\n")

\* the part of a url before the first '?', and the part after it
PathOf(u)  == Split(u, "?")[1]
QueryOf(u) == IF Len(Split(u, "?")) = 1 THEN <<>> ELSE SubSeq(u, Len(PathOf(u)) + 2, Len(u))

\* the host of protocol://host/path (a host is one piece)
HostOf(u) == <<u[(CHOOSE i \in 1..Len(u) : u[i] = "://") + 1]>>

\* C1: a get() whose query has no params, or an empty params object, signs an
\* empty query string and returns the resolved path with no '?' suffix.
C1_NoParamsNoQuery ==
  (last.valid /\ (~last.query.hasParams \/ last.query.params = <<>>)) =>
    /\ Lines(last)[3] = <<>>
    /\ last.response.url = last.path
    /\ \A i \in 1..Len(last.response.url) : last.response.url[i] # "?"

\* C2: the three dates of a sign() call denote one instant: the same day in all
\* three, the same time of day in usbldate and longdate.
C2_OneInstant ==
  dates # NoDates =>
    /\ SubSeq(dates.longdate, 1, 8) = dates.shortdate
    /\ SubSeq(dates.usbldate, 6, 7) = SubSeq(dates.shortdate, 7, 8)
    /\ SubSeq(dates.usbldate, 18, 19) = SubSeq(dates.longdate, 10, 11)
    /\ SubSeq(dates.usbldate, 21, 22) = SubSeq(dates.longdate, 12, 13)
    /\ SubSeq(dates.usbldate, 24, 25) = SubSeq(dates.longdate, 14, 15)

\* a client just constructed with the same credentials, its method set to m
FreshFactory(m) ==
  [accessKey |-> ConstructorAccessKey, secretKey |-> ConstructorSecretKey,
   host |-> UsabillaConfig.host, url |-> Undefined, method |-> m,
   queryParameters |-> Undefined, dates |-> NoDates, headers |-> NoHeaders]

Produced(sg) ==
  [response |-> sg.response, canonical |-> CanonicalString(sg.sf),
   stringToSign |-> StringToSign(sg.sf)]

\* what the same get(), at the same clock readings, produces on that client
FreshGet(call) ==
  Produced(Sign(HandleQuery(SetUrl(FreshFactory(call.method), ResourceUrl(call.resource)),
                            call.query).sf,
                call.reads[1], call.reads[2], call.reads[3]))

\* C3: what a get() produces is a function of its own inputs and the
\* credentials: it is what the same call produces when no call preceded it.
C3_Deterministic ==
  last.valid =>
    FreshGet(last) = [response |-> last.response, canonical |-> last.canonical,
                      stringToSign |-> last.stringToSign]

\* a precedes b in the order of the code units
LexLess(a, b) ==
  \E n \in 0..Len(a) :
    /\ n <= Len(b)
    /\ SubSeq(a, 1, n) = SubSeq(b, 1, n)
    /\ \/ n = Len(a) /\ n < Len(b)
       \/ n < Len(a) /\ n < Len(b) /\ CodeUnit(a[n + 1]) < CodeUnit(b[n + 1])

Reverse(p) == [i \in 1..Len(p) |-> p[Len(p) + 1 - i]]

\* C4: the query string is the own properties as key=value, keys ascending,
\* joined by '&', and does not depend on the order the properties were created in.
C4_SortedQueryString ==
  (fnOut.done /\ fnIn.query.hasParams) =>
    LET params == fnIn.query.params
        IsOwn(x) == x.own
        own    == SelectSeq(params, IsOwn)
        qs     == fnOut.queryParameters
        fields == Split(qs, "&")
    IN /\ own = <<>> => qs = <<>>
       /\ own # <<>> =>
            /\ Len(fields) = Len(own)
            /\ \A j \in 1..Len(own) :
                 \E i \in 1..Len(fields) : fields[i] = own[j].k \o <<"=">> \o own[j].v
            /\ \A i \in 1..(Len(fields) - 1) :
                 LexLess(Split(fields[i], "=")[1], Split(fields[i + 1], "=")[1])
       /\ BuildQueryParameters(fnIn.queryParameters, Reverse(params)) = qs

C4_Witness ==
  /\ fnOut.done
  /\ fnIn.query.params = ParamsBA
  /\ fnOut.queryParameters = <<"a", "=", "1", "&", "b", "=", "2">>

\* text put in the place of the first placeholder of template
Splice(template, text) ==
  IF \A i \in 1..Len(template) : <<template[i]>> # Placeholder THEN template
  ELSE LET i == CHOOSE j \in 1..Len(template) :
                  /\ <<template[j]>> = Placeholder
                  /\ \A k \in 1..(j - 1) : <<template[k]>> # Placeholder
       IN SubSeq(template, 1, i - 1) \o text \o SubSeq(template, i + 1, Len(template))

RefResolve(template, hasId, id) ==
  IF ~hasId \/ id = <<>> THEN template
  ELSE IF id = <<"*">> THEN Splice(template, EncodedWildcard)
  ELSE Splice(template, id)

\* C5: handleQuery resolves the path as the reference does: unchanged without an
\* id, '%2A' for '*', the id itself for any other id.
C5_PathResolution ==
  (fnOut.done /\ ~fnIn.query.hasParams) =>
    fnOut.url = RefResolve(fnIn.url, fnIn.query.hasId, fnIn.query.id)

\* C6: the canonical string is method, path, query string, date line, host
\* line, an empty line, 'date;host' and the hash of the empty string.
C6_CanonicalLayout ==
  last.valid =>
    Lines(last) = << IF last.method = Undefined THEN <<"GET">> ELSE last.method,
                     last.path,
                     IF last.qs = Undefined THEN <<>> ELSE last.qs,
                     <<"date:">> \o last.response.headers.date,
                     <<"host:">> \o host,
                     <<>>,
                     <<"date;host">>,
                     <<"sha256(", ")">> >>

C6_Witness ==
  /\ last.valid
  /\ last.qs = Undefined
  /\ last.method = Undefined
  /\ Lines(last)[3] = <<>>

\* C7: accessKey and secretKey stay what the constructor was given.
C7_CredentialsReadOnly ==
  /\ accessKey = ConstructorAccessKey
  /\ secretKey = ConstructorSecretKey

C7_Witness ==
  /\ last.valid
  /\ method # Undefined
  /\ "accessKey" \in DOMAIN config
  /\ config.host # DataHost

\* C8: a get() with the inputs of the get() before it, on the same resource,
\* leaves the same resolved path and the same query string.
C8_Idempotent ==
  last.again =>
    /\ last.path = last.prior.path
    /\ Str(last.qs) = Str(last.prior.qs)

C8_Witness ==
  /\ last.again
  /\ last.reused
  /\ last.resource = "feedback"
  /\ last.query.id = EncodedWildcard
  /\ last.query.params = ParamsBA

\* C9: once the transport callback has fired the promise is settled: resolved
\* when there was no error and the status was 200, rejected with the body otherwise.
C9_Settles ==
  callback.state = "fired" =>
    IF ~callback.error /\ callback.statusCode = 200
      THEN promise.state = "resolved"
      ELSE promise.state = "rejected" /\ promise.value = callback.body

\* C10: the path, query string, date and host in the canonical string are those
\* of the request that is issued.
C10_SignedIsSent ==
  last.valid =>
    /\ Lines(last)[2] = PathOf(last.response.url)
    /\ Lines(last)[3] = QueryOf(last.response.url)
    /\ Lines(last)[4] = <<"date:">> \o last.options.headers.date
    /\ Lines(last)[5] = <<"host:">> \o HostOf(last.options.url)
    /\ last.options.url = GetBaseUrl \o last.response.url
    /\ last.options.headers = last.response.headers

C10_Witness ==
  /\ last.valid
  /\ Truthy(last.qs)
  /\ last.resource = "feedback"
  /\ config.host # DataHost

====
